---- MODULE Spec2Model ----
(***************************************************************************)
(* Preprocessing of translation units that include the CPrintTrace shims   *)
(* Sources/CPrintTrace/shim.h and Sources/CPrintTrace/ios_shim.h.          *)
(*                                                                         *)
(* A translation unit is a macro table (name -> replacement text, the      *)
(* DOMAIN being the names that are defined), the log of the shims it has   *)
(* included, the log of the #import / #include directives the shims have   *)
(* issued for it, and its compilation status.  One action preprocesses one *)
(* inclusion of one shim, from its #ifndef to its final #endif.            *)
(***************************************************************************)
EXTENDS Naturals, Sequences, FiniteSets, TLC

VARIABLES
    platform,    \* the operating system the build actually targets
    searchPath,  \* the header paths that exist on the compiler's search path
    macros,      \* unit -> macro table at the current point of the unit
    included,    \* unit -> sequence of shim files included so far
    directives,  \* unit -> sequence of directives the shims have issued
    evaluated,   \* unit -> sequence of #if evaluations: the flags found true
    status,      \* unit -> "compiling" | "failed"
    diag         \* unit -> sequence of diagnostics

vars == <<platform, searchPath, macros, included, directives, evaluated, status, diag>>

\* Longest sequence of shim inclusions explored in one translation unit.
MaxIncludes == 2

-----------------------------------------------------------------------------
(* Names appearing in the two headers *)

TARGET_OS_IOS   == "TARGET_OS_IOS"
TARGET_OS_TV    == "TARGET_OS_TV"
TARGET_OS_WATCH == "TARGET_OS_WATCH"
PlatformFlags   == {TARGET_OS_IOS, TARGET_OS_TV, TARGET_OS_WATCH}

CPRINTTRACE_SHIM_H     == "CPRINTTRACE_SHIM_H"
CPRINTTRACE_IOS_SHIM_H == "CPRINTTRACE_IOS_SHIM_H"

FrameworkHeader == "PrintTrace/PrintTraceAPI.h"
PlainHeader     == "PrintTraceAPI.h"
Headers         == {FrameworkHeader, PlainHeader}

ShimFile    == "shim.h"
IosShimFile == "ios_shim.h"
ShimFiles   == {ShimFile, IosShimFile}

-----------------------------------------------------------------------------
(* What the build environment supplies: not named by the headers *)

Platforms == {"iOS", "tvOS", "watchOS", "macOS", "Linux"}

\* A macro the headers never mention, standing for everything else a
\* translation unit may define (TargetConditionals.h sets it to 1 on every
\* Apple platform, mobile or not).
TARGET_OS_MAC == "TARGET_OS_MAC"
EnvMacros     == PlatformFlags \cup {TARGET_OS_MAC}

\* Replacement texts the environment gives an indicator macro.
FlagTexts == {"0", "1"}

-----------------------------------------------------------------------------
(* The preprocessor *)

Defined(m, name) == name \in DOMAIN m

\* #define name text
DefineIn(m, name, text) ==
    [n \in DOMAIN m \cup {name} |-> IF n = name THEN text ELSE m[n]]

\* #undef name
UndefIn(m, name) == [n \in DOMAIN m \ {name} |-> m[n]]

\* Macro expansion of an identifier: a name that is no macro is left as it is.
Expand(m, name) == IF Defined(m, name) THEN m[name] ELSE name

\* The integer a pp-number denotes in a #if expression.
IntOf(text) == IF text = "0" THEN 0 ELSE 1

\* An identifier in a #if expression: its expansion when it is a macro, and
\* 0 when it is not defined (C11 6.10.1p4).
IfValue(m, name) == IF Defined(m, name) THEN IntOf(m[name]) ELSE 0

\* A controlling expression is true when it is nonzero.
IfTrue(m, name) == IfValue(m, name) # 0

\* What a #if over the platform flags reads from the macro table.
FlagsTrue(m) == {f \in PlatformFlags : IfTrue(m, f)}

\* Resolution of <path> against the search path.
Found(sp, path) == path \in sp

\* The directives of `ds` that are processed: every one up to and including
\* the first whose header is missing, which is a fatal error.
RECURSIVE Processed(_, _)
Processed(ds, sp) ==
    IF ds = << >> THEN << >>
    ELSE IF Found(sp, Head(ds).path) THEN << Head(ds) >> \o Processed(Tail(ds), sp)
    ELSE << Head(ds) >>

Missing(ds, sp) == SelectSeq(ds, LAMBDA d : ~Found(sp, d.path))

Diagnostic(d) == [error |-> "file not found", path |-> d.path, from |-> d.from]

RECURSIVE Diagnostics(_)
Diagnostics(ds) ==
    IF ds = << >> THEN << >> ELSE << Diagnostic(Head(ds)) >> \o Diagnostics(Tail(ds))

-----------------------------------------------------------------------------
(* shim.h *)

\* Variants of line 4: only the iOS indicator is tested; the indicators are
\* tested with defined(); any Apple platform counts.
ShimConditionIosOnly(m) == IfTrue(m, TARGET_OS_IOS)

ShimConditionDefined(m) ==
    Defined(m, TARGET_OS_IOS) \/ Defined(m, TARGET_OS_TV) \/ Defined(m, TARGET_OS_WATCH)

ShimConditionAnyApple(m) ==
    \/ IfTrue(m, TARGET_OS_IOS) \/ IfTrue(m, TARGET_OS_TV) \/ IfTrue(m, TARGET_OS_WATCH)
    \/ IfTrue(m, TARGET_OS_MAC)

\* line 4: #if TARGET_OS_IOS || TARGET_OS_TV || TARGET_OS_WATCH
ShimCondition(m) ==
    IfTrue(m, TARGET_OS_IOS) \/ IfTrue(m, TARGET_OS_TV) \/ IfTrue(m, TARGET_OS_WATCH)

\* line 6: #import <PrintTrace/PrintTraceAPI.h>
ShimImport == [from |-> ShimFile, directive |-> "import", path |-> FrameworkHeader]

\* line 9: #include <PrintTraceAPI.h>
ShimInclude == [from |-> ShimFile, directive |-> "include", path |-> PlainHeader]

\* Variants of lines 4-10: two independent conditionals, the second one
\* `#if !TARGET_OS_IOS`, in place of #if / #else; and a framework branch
\* that is taken only when __has_include finds the framework header.
ShimBodyTwoGroups(m, sp) ==
    (IF ShimCondition(m) THEN << ShimImport >> ELSE << >>)
        \o (IF ~IfTrue(m, TARGET_OS_IOS) THEN << ShimInclude >> ELSE << >>)

ShimBodyFallback(m, sp) ==
    IF ShimCondition(m) /\ Found(sp, FrameworkHeader)
    THEN << ShimImport >> ELSE << ShimInclude >>

\* lines 4-10: the directives of the conditional group that is active, with
\* macro table m and search path sp
ShimBody(m, sp) == IF ShimCondition(m) THEN << ShimImport >> ELSE << ShimInclude >>

\* Variants of lines 1-3: the #define of the guard is missing; line 3
\* includes <TargetConditionals.h>, which defines every indicator from the
\* target (the header exists on Apple platforms only).
ShimPreludeNoDefine(m, p) == m

ShimPreludeTargetConditionals(m, p) ==
    IF p = "Linux" THEN DefineIn(m, CPRINTTRACE_SHIM_H, "")
    ELSE [n \in DOMAIN m \cup PlatformFlags \cup {CPRINTTRACE_SHIM_H} |->
            CASE n = CPRINTTRACE_SHIM_H -> ""
              [] n = TARGET_OS_IOS      -> IF p = "iOS" THEN "1" ELSE "0"
              [] n = TARGET_OS_TV       -> IF p = "tvOS" THEN "1" ELSE "0"
              [] n = TARGET_OS_WATCH    -> IF p = "watchOS" THEN "1" ELSE "0"
              [] OTHER                  -> m[n]]

\* lines 1-3: what is defined when line 4 is evaluated
ShimPrelude(m, p) == DefineIn(m, CPRINTTRACE_SHIM_H, "")

\* line 1: #ifndef CPRINTTRACE_SHIM_H
ShimGuardOpen(m) == ~Defined(m, CPRINTTRACE_SHIM_H)

-----------------------------------------------------------------------------
(* ios_shim.h *)

\* Variants of line 5: the copy has drifted and no longer tests the watchOS
\* indicator; the copy tests the tvOS indicator with defined().
IosShimConditionNoWatch(m) == IfTrue(m, TARGET_OS_IOS) \/ IfTrue(m, TARGET_OS_TV)

IosShimConditionTvDefined(m) ==
    IfTrue(m, TARGET_OS_IOS) \/ Defined(m, TARGET_OS_TV) \/ IfTrue(m, TARGET_OS_WATCH)

\* line 5: #if TARGET_OS_IOS || TARGET_OS_TV || TARGET_OS_WATCH
IosShimCondition(m) ==
    IfTrue(m, TARGET_OS_IOS) \/ IfTrue(m, TARGET_OS_TV) \/ IfTrue(m, TARGET_OS_WATCH)

\* line 8: #import <PrintTrace/PrintTraceAPI.h>
IosShimImport == [from |-> IosShimFile, directive |-> "import", path |-> FrameworkHeader]

\* line 13: #include <PrintTraceAPI.h>
IosShimInclude == [from |-> IosShimFile, directive |-> "include", path |-> PlainHeader]

\* lines 5-15
IosShimBody(m, sp) ==
    IF IosShimCondition(m) THEN << IosShimImport >> ELSE << IosShimInclude >>

\* lines 1-4
IosShimPrelude(m, p) == DefineIn(m, CPRINTTRACE_IOS_SHIM_H, "")

\* line 1: #ifndef CPRINTTRACE_IOS_SHIM_H
IosShimGuardOpen(m) == ~Defined(m, CPRINTTRACE_IOS_SHIM_H)

-----------------------------------------------------------------------------
(* Actions *)

Units == DOMAIN status

CanInclude(tu) ==
    /\ status[tu] = "compiling"
    /\ Len(included[tu]) < MaxIncludes

\* The unit reaches a line `#include "<file>"`; `open` is the outcome of the
\* file's #ifndef, `after` the macro table its prelude leaves and `body` the
\* directives of its active conditional group.
Preprocess(tu, file, open, after, body) ==
    /\ CanInclude(tu)
    /\ included' = [included EXCEPT ![tu] = Append(@, file)]
    /\ IF open
       THEN /\ macros' = [macros EXCEPT ![tu] = after]
            /\ evaluated' = [evaluated EXCEPT ![tu] =
                              Append(@, [from |-> file, flags |-> FlagsTrue(after)])]
            /\ directives' = [directives EXCEPT ![tu] = @ \o Processed(body, searchPath)]
            /\ diag' = [diag EXCEPT ![tu] = @ \o Diagnostics(Missing(Processed(body, searchPath), searchPath))]
            /\ status' = [status EXCEPT ![tu] =
                           IF Missing(body, searchPath) = << >> THEN @ ELSE "failed"]
       ELSE UNCHANGED <<macros, evaluated, directives, diag, status>>
    /\ UNCHANGED <<platform, searchPath>>

\* #include "shim.h"
IncludeShim(tu) ==
    Preprocess(tu, ShimFile, ShimGuardOpen(macros[tu]),
               ShimPrelude(macros[tu], platform),
               ShimBody(ShimPrelude(macros[tu], platform), searchPath))

\* #include "ios_shim.h"
IncludeIosShim(tu) ==
    Preprocess(tu, IosShimFile, IosShimGuardOpen(macros[tu]),
               IosShimPrelude(macros[tu], platform),
               IosShimBody(IosShimPrelude(macros[tu], platform), searchPath))

\* Text of the unit outside the shims (or of another header it includes)
\* defines an indicator macro.
Define(tu, name, text) ==
    /\ status[tu] = "compiling"
    /\ name \in EnvMacros
    /\ Expand(macros[tu], name) # text
    /\ macros' = [macros EXCEPT ![tu] = DefineIn(@, name, text)]
    /\ UNCHANGED <<platform, searchPath, included, directives, evaluated, status, diag>>

\* ... or undefines one.
Undef(tu, name) ==
    /\ status[tu] = "compiling"
    /\ name \in EnvMacros
    /\ Defined(macros[tu], name)
    /\ macros' = [macros EXCEPT ![tu] = UndefIn(@, name)]
    /\ UNCHANGED <<platform, searchPath, included, directives, evaluated, status, diag>>

-----------------------------------------------------------------------------
(* Specifications *)

\* Macro tables the command line can set up: any subset of the environment's
\* macros, each 0 or 1; the guards are the shims' own names.
EnvTables ==
    UNION { [names -> FlagTexts] : names \in SUBSET EnvMacros }

InitUnits(units, targets) ==
    /\ platform \in targets
    /\ searchPath \in SUBSET Headers
    /\ macros \in [units -> EnvTables]
    /\ included = [tu \in units |-> << >>]
    /\ directives = [tu \in units |-> << >>]
    /\ evaluated = [tu \in units |-> << >>]
    /\ status = [tu \in units |-> "compiling"]
    /\ diag = [tu \in units |-> << >>]

\* One translation unit, whose text between inclusions may redefine macros.
SingleUnit == {"tu"}

Init == InitUnits(SingleUnit, Platforms)

Next ==
    \/ \E tu \in SingleUnit : IncludeShim(tu)
    \/ \E tu \in SingleUnit : IncludeIosShim(tu)
    \/ \E tu \in SingleUnit, name \in EnvMacros, text \in FlagTexts : Define(tu, name, text)
    \/ \E tu \in SingleUnit, name \in EnvMacros : Undef(tu, name)

Spec == Init /\ [][Next]_vars

\* Two translation units of one build, each compiled with the macro table its
\* command line sets up and including the shims in any order.  No line of the
\* shims reads the target, so the pair is explored for one target.
PairUnits     == {"a", "b"}
PairPlatforms == {"iOS"}

InitPair == InitUnits(PairUnits, PairPlatforms)

NextPair ==
    \/ \E tu \in PairUnits : IncludeShim(tu)
    \/ \E tu \in PairUnits : IncludeIosShim(tu)

SpecPair == InitPair /\ [][NextPair]_vars

-----------------------------------------------------------------------------
(* Vocabulary of the properties *)

GuardOf(file) == IF file = ShimFile THEN CPRINTTRACE_SHIM_H ELSE CPRINTTRACE_IOS_SHIM_H

\* Steps: the unit includes `file`; the inclusion passes the guard; the
\* inclusion is stopped by the guard.
Includes(tu, file) == included'[tu] = Append(included[tu], file)
Passes(tu, file)   == Includes(tu, file) /\ ~Defined(macros[tu], GuardOf(file))
Skips(tu, file)    == Includes(tu, file) /\ Defined(macros[tu], GuardOf(file))

\* The directives a step adds to the unit's log.
Issued(tu) == SubSeq(directives'[tu], Len(directives[tu]) + 1, Len(directives'[tu]))

Paths(ds)      == {ds[i].path : i \in DOMAIN ds}
From(ds, file) == SelectSeq(ds, LAMBDA d : d.from = file)
Times(fs, file) == Cardinality({i \in DOMAIN fs : fs[i] = file})

\* The build flags indicate an iOS, tvOS or watchOS target: one of the three
\* indicators is defined to a nonzero value.
Indicates(m, flag) == Defined(m, flag) /\ m[flag] # "0"
Mobile(m)          == \E flag \in PlatformFlags : Indicates(m, flag)

FlagValues(m)   == [flag \in PlatformFlags |-> Expand(m, flag)]
NoFlagDefined(m) == \A flag \in PlatformFlags : ~Defined(m, flag)
BothPassed(tu)  == \A file \in ShimFiles : Defined(macros[tu], GuardOf(file))
Only(tu, file)  == included[tu] # << >> /\ \A i \in DOMAIN included[tu] : included[tu][i] = file

-----------------------------------------------------------------------------
(* Properties *)

\* C1: whatever the values of the three platform flags, an inclusion of
\* shim.h or ios_shim.h that passes the guard issues exactly one directive,
\* for exactly one of the two headers: the framework import and the plain
\* include are never both issued and never both left out.
C1_ExactlyOneBranch ==
    [][\A tu \in Units, file \in ShimFiles :
          Passes(tu, file) =>
              /\ Len(Issued(tu)) = 1
              /\ Issued(tu)[1].from = file
              /\ ~((FrameworkHeader \in Paths(Issued(tu)))
                     <=> (PlainHeader \in Paths(Issued(tu))))]_vars

C1_Witness ==
    /\ Len(included["tu"]) = 1
    /\ Len(directives["tu"]) = 1
    /\ Expand(macros["tu"], TARGET_OS_TV) = "1"
    /\ Expand(macros["tu"], TARGET_OS_IOS) = "0"
    /\ searchPath = Headers

\* C2: when a platform flag indicates an iOS (or tvOS, or watchOS) target,
\* a shim that passes its guard includes <PrintTrace/PrintTraceAPI.h> and
\* not <PrintTraceAPI.h>.
C2_MobileTakesFramework ==
    [][\A tu \in Units, file \in ShimFiles :
          Passes(tu, file) /\ Mobile(macros[tu]) =>
              Paths(Issued(tu)) = {FrameworkHeader}]_vars

C2_Witness ==
    /\ \E flag \in PlatformFlags :
          /\ Indicates(macros["tu"], flag)
          /\ evaluated["tu"] = << [from |-> ShimFile, flags |-> {flag}] >>
    /\ directives["tu"] = << ShimImport >>

\* C3: when no platform flag indicates a mobile target (macOS, Linux), a shim
\* that passes its guard includes <PrintTraceAPI.h> and not the framework
\* header.
C3_OtherTakesPlain ==
    [][\A tu \in Units, file \in ShimFiles :
          Passes(tu, file) /\ ~Mobile(macros[tu]) =>
              Paths(Issued(tu)) = {PlainHeader}]_vars

C3_Witness ==
    /\ \A flag \in PlatformFlags : Defined(macros["tu"], flag) /\ macros["tu"][flag] = "0"
    /\ evaluated["tu"] = << [from |-> IosShimFile, flags |-> {}] >>
    /\ directives["tu"] = << IosShimInclude >>

\* C4: when the flags indicate a mobile target and the framework header is
\* not on the search path, the inclusion fails with a file-not-found error
\* for the framework header and issues no directive for the plain header,
\* whether or not the plain header is on the search path.
C4_NoFallback ==
    [][\A tu \in Units, file \in ShimFiles :
          Passes(tu, file) /\ Mobile(macros[tu]) /\ ~Found(searchPath, FrameworkHeader) =>
              /\ status'[tu] = "failed"
              /\ diag'[tu] = Append(diag[tu], [error |-> "file not found",
                                               path |-> FrameworkHeader, from |-> file])
              /\ PlainHeader \notin Paths(Issued(tu))]_vars

C4_Witness ==
    /\ searchPath = {PlainHeader}
    /\ Indicates(macros["tu"], TARGET_OS_IOS)
    /\ status["tu"] = "failed"
    /\ Len(diag["tu"]) = 1 /\ diag["tu"][1].path = FrameworkHeader
    /\ Paths(directives["tu"]) = {FrameworkHeader}

\* C5: two translation units whose platform flags have the same values
\* resolve a shim to the same header, whatever else differs (the unit, its
\* other macros, what it included before); and two units that differ in the
\* platform flags only, one indicating no mobile target and one indicating
\* iOS, resolve to the plain and to the framework header.
C5_FunctionOfFlagsAlone ==
    \A t1 \in Units, t2 \in Units, file \in ShimFiles :
        LET r1 == From(directives[t1], file)
            r2 == From(directives[t2], file)
        IN  (r1 # << >> /\ r2 # << >>) =>
              /\ FlagValues(macros[t1]) = FlagValues(macros[t2])
                    => r1[1].path = r2[1].path
              /\ ( /\ ~Mobile(macros[t1])
                   /\ Indicates(macros[t2], TARGET_OS_IOS)
                   /\ Expand(macros[t1], TARGET_OS_MAC) = Expand(macros[t2], TARGET_OS_MAC)
                   /\ included[t1] = included[t2] )
                    => r1[1].path = PlainHeader /\ r2[1].path = FrameworkHeader

C5_Witness ==
    /\ FlagValues(macros["a"]) = FlagValues(macros["b"])
    /\ Indicates(macros["a"], TARGET_OS_TV)
    /\ ~Defined(macros["a"], TARGET_OS_MAC) /\ Indicates(macros["b"], TARGET_OS_MAC)
    /\ included["a"] = << IosShimFile, ShimFile >>
    /\ included["b"] = << ShimFile >>
    /\ From(directives["a"], ShimFile) # << >>
    /\ From(directives["b"], ShimFile) # << >>

\* C6: for every combination of the platform flags, a unit that includes
\* only shim.h and a unit that includes only ios_shim.h resolve to the same
\* header.
C6_SameSelector ==
    \A t1 \in Units, t2 \in Units :
        ( /\ Only(t1, ShimFile)
          /\ Only(t2, IosShimFile)
          /\ FlagValues(macros[t1]) = FlagValues(macros[t2]) )
            => /\ Len(directives[t1]) = 1
               /\ Len(directives[t2]) = 1
               /\ directives[t1][1].path = directives[t2][1].path

C6_Witness ==
    /\ Only("a", ShimFile)
    /\ Only("b", IosShimFile)
    /\ FlagValues(macros["a"]) = FlagValues(macros["b"])
    /\ FlagsTrue(macros["a"]) = {TARGET_OS_WATCH}
    /\ Len(directives["b"]) = 1

\* C7: the first inclusion of a shim defines its guard and selects once;
\* every later inclusion of that shim changes nothing and issues no
\* directive, so a unit holds one directive of a shim however often it
\* includes it.
C7_SelectsOnce ==
    /\ [](\A tu \in Units, file \in ShimFiles :
            /\ Times(included[tu], file) = 0 =>
                  /\ ~Defined(macros[tu], GuardOf(file))
                  /\ Len(From(directives[tu], file)) = 0
            /\ Times(included[tu], file) >= 1 =>
                  /\ Defined(macros[tu], GuardOf(file))
                  /\ Len(From(directives[tu], file)) = 1
                  /\ Len(From(evaluated[tu], file)) = 1)
    /\ [][\A tu \in Units, file \in ShimFiles :
            Skips(tu, file) =>
                /\ Issued(tu) = << >>
                /\ UNCHANGED <<macros, directives, evaluated, status, diag>>]_vars

C7_Witness ==
    /\ included["tu"] = << ShimFile, ShimFile >>
    /\ Len(directives["tu"]) = 1
    /\ status["tu"] = "compiling"

\* C8: a shim neither defines nor imports the platform flags, and a flag
\* that is not defined counts as false: when none of the three is defined at
\* the point of inclusion, the plain header is selected and the flags are
\* still undefined afterwards, whatever platform the build targets.
C8_UndefinedIsFalse ==
    [][\A tu \in Units, file \in ShimFiles :
          /\ Includes(tu, file) => FlagValues(macros'[tu]) = FlagValues(macros[tu])
          /\ Passes(tu, file) /\ NoFlagDefined(macros[tu]) =>
                /\ Paths(Issued(tu)) = {PlainHeader}
                /\ NoFlagDefined(macros'[tu])]_vars

C8_Witness ==
    /\ platform = "iOS"
    /\ NoFlagDefined(macros["tu"])
    /\ included["tu"] = << ShimFile >>
    /\ directives["tu"] = << ShimInclude >>
    /\ evaluated["tu"] = << [from |-> ShimFile, flags |-> {}] >>

\* C9 as stated: a unit in which both shims have passed their guards, in
\* either order, has evaluated the selector twice and holds two directives,
\* one from each shim, for the same header.
C9_Original ==
    \A tu \in Units :
        BothPassed(tu) =>
            /\ Len(evaluated[tu]) = 2
            /\ Len(directives[tu]) = 2
            /\ {directives[tu][1].from, directives[tu][2].from} = ShimFiles
            /\ directives[tu][1].path = directives[tu][2].path

\* C9, amended: the guards are distinct, so a unit in which both shims have
\* passed their guards, in either order, has evaluated the selector twice
\* and holds two directives, one from each shim; the two name the same
\* header whenever the platform flags had the same truth values at the two
\* points of inclusion.
C9_SameFlagsSameBranch ==
    \A tu \in Units :
        BothPassed(tu) =>
            /\ Len(evaluated[tu]) = 2
            /\ Len(directives[tu]) = 2
            /\ {directives[tu][1].from, directives[tu][2].from} = ShimFiles
            /\ evaluated[tu][1].flags = evaluated[tu][2].flags
                  => directives[tu][1].path = directives[tu][2].path

C9_Witness ==
    /\ included["tu"] = << IosShimFile, ShimFile >>
    /\ BothPassed("tu")
    /\ evaluated["tu"][1].flags = {TARGET_OS_WATCH}
    /\ evaluated["tu"][2].flags = {TARGET_OS_WATCH}
    /\ Paths(directives["tu"]) = {FrameworkHeader}
    /\ Len(directives["tu"]) = 2

====
